---------------------------- MODULE Spec2Model ----------------------------
(***************************************************************************)
(* A model of the critical-point detection, windowing and classification   *)
(* code of sitka_irg_analysis (utils/analysis_utils.py, utils/ir_reading.py,*)
(* plot_heights.py, process_hx_data.py, utils/stats.py).                    *)
(*                                                                         *)
(* Units.  A timestamp is an integer number of seconds since the start of  *)
(* the analysed period, which is the midnight that starts day 0 (datetime  *)
(* differences are used by the code only through total_seconds(), dates    *)
(* only in the names of the output files).  A height is an integer number of hundredths   *)
(* of a foot, so RISE_CRITICAL = 2.5 ft is 250, M_CRITICAL = 0.5 ft/hr is   *)
(* 50 hundredths of a foot per hour and RIVER_MIN_HEIGHT = 20.5 ft is 2050. *)
(*                                                                         *)
(* Python lists are sequences; Python's 0-based index k is the 1-based      *)
(* index k+1.  An IRReading namedtuple is a record with the same fields; a  *)
(* SlideEvent object is a record; SlideEvent defines no __eq__, so two      *)
(* objects are the same only if they were created by the same load_slides  *)
(* call: the load field, the number of that call, stands for the identity. *)
(***************************************************************************)
EXTENDS Integers, Sequences, FiniteSets, TLC

VARIABLES
    \* ---- the batch run of process_hx_data ----
    known_slides,   \* the catalog loaded by SlideEvent.load_slides
    data_files,     \* the readings parsed from each entry of data_files
    file_index,     \* how many data files the for loop has processed
    stats,          \* utils.stats.stats, the module-level accumulator
    reading_sets,   \* the value returned by the last get_reading_sets call
    output_files,   \* the files written so far: file name -> content
    slides_outside_range, \* summarize_results' local list
    pc,             \* "files" | "output" | "summarize" | "done" | "raised"
    exc,            \* the exception that ended the run, or "None"
    run,            \* how many times process_hx_data has been called
    summaries,      \* the counts summarize_results printed, one per run
    a_utils,        \* the module globals RISE_CRITICAL and M_CRITICAL
    all_results,    \* the list analyze_all_data appends its results to
    \* ---- a direct call of one analysis_utils function ----
    series,         \* the readings the function is called on
    call,           \* [fn |-> name of the function, anchor |-> its anchor]
    result          \* [exc |-> exception name or "None", val |-> returned list,
                    \*  << >> when the function returns None]

vars == <<known_slides, data_files, file_index, stats, reading_sets,
          output_files, slides_outside_range, pc, exc, run, summaries, a_utils,
          all_results, series, call, result>>

batch_vars == <<known_slides, data_files, file_index, stats, reading_sets,
                output_files, slides_outside_range, pc, exc, run, summaries>>

sweep_vars == <<a_utils, all_results>>

call_vars == <<series, call, result>>

----------------------------------------------------------------------------
(* Program constants (utils/analysis_utils.py), in hundredths of a foot:   *)
(* the values the module assigns when it is imported.                      *)

RISE_CRITICAL == 250

M_CRITICAL == 50

RIVER_MIN_HEIGHT == 2050

----------------------------------------------------------------------------
(* Python helpers.                                                         *)

Min(a, b) == IF a < b THEN a ELSE b

Max(a, b) == IF a > b THEN a ELSE b

Abs(a) == IF a < 0 THEN -a ELSE a

\* math.ceil(a / b) for positive a and b.
Ceil(a, b) == (a + b - 1) \div b

\* int(a / b): float division truncated toward zero, b # 0.
IntDiv(a, b) ==
    IF (a >= 0) = (b > 0) THEN Abs(a) \div Abs(b) ELSE -(Abs(a) \div Abs(b))

\* The list s[start:stop] with Python's 0-based start and stop: a negative
\* index counts from the end, and both are clamped to the list.
PySlice(s, start, stop) ==
    LET n  == Len(s)
        lo == IF start < 0 THEN Max(start + n, 0) ELSE Min(start, n)
        hi == IF stop < 0 THEN Max(stop + n, 0) ELSE Min(stop, n)
    IN  IF lo < hi THEN SubSeq(s, lo + 1, hi) ELSE << >>

\* list.index(x): the 0-based position of the first element equal to x,
\* or -1 where Python raises ValueError.
PyIndex(s, x) ==
    IF \E k \in 1..Len(s) : s[k] = x
    THEN (CHOOSE k \in 1..Len(s) : s[k] = x /\ \A j \in 1..(k-1) : s[j] # x) - 1
    ELSE -1

SeqToSet(s) == {s[k] : k \in 1..Len(s)}

----------------------------------------------------------------------------
(* utils/ir_reading.py                                                     *)

IRReading(dt_reading, height) == [dt_reading |-> dt_reading, height |-> height]

\* get_rise: reading.height - reading_2.height.
get_rise(reading, reading_2) == reading.height - reading_2.height

\* get_slope(reading, reading_2) > m: abs(d_height / d_time) > m with d_time
\* in hours, i.e. |d_height| * 3600 > m * |d_seconds| (d_seconds # 0).
slope_exceeds(reading, reading_2, m) ==
    Abs(reading.height - reading_2.height) * 3600
        > m * Abs(reading.dt_reading - reading_2.dt_reading)

----------------------------------------------------------------------------
(* utils/analysis_utils.py: detection.  The functions read the module      *)
(* globals RISE_CRITICAL and M_CRITICAL when they are called: the parameter *)
(* th of an operator is the value of these globals, a_utils, at the call.   *)

\* The module globals as the import leaves them.
DefaultThresholds ==
    [RISE_CRITICAL |-> RISE_CRITICAL, M_CRITICAL |-> M_CRITICAL]

\* (readings[1].dt_reading - readings[0].dt_reading).total_seconds() // 60
reading_interval(rs) ==
    (rs[2].dt_reading - rs[1].dt_reading) \div 60

\* The exception get_reading_rate raises on readings, or "None".
get_reading_rate_exc(rs) ==
    IF Len(rs) < 2 THEN "IndexError"
    ELSE IF reading_interval(rs) = 0 THEN "ZeroDivisionError"
    ELSE "None"

\* get_reading_rate: int(60 / reading_interval), readings per hour.
get_reading_rate(rs) == IntDiv(60, reading_interval(rs))

\* max_lookback = math.ceil(RISE_CRITICAL / M_CRITICAL) * readings_per_hr
max_lookback(rs, th) ==
    Ceil(th.RISE_CRITICAL, th.M_CRITICAL) * get_reading_rate(rs)

\* prev_readings of the loop body, where reading_index is enumerate()'s
\* 0-based index over readings[max_lookback:]:
\*   readings[reading_index-max_lookback:reading_index]
prev_readings(rs, reading_index, lookback) ==
    PySlice(rs, reading_index - lookback, reading_index)

\* The loop variable `reading` at enumerate() index reading_index of
\* readings[max_lookback:].
loop_reading(rs, reading_index, lookback) == rs[lookback + reading_index + 1]

\* if rise >= RISE_CRITICAL and m > M_CRITICAL
is_critical_pair(reading, prev_reading, th) ==
    /\ get_rise(reading, prev_reading) >= th.RISE_CRITICAL
    /\ slope_exceeds(reading, prev_reading, th.M_CRITICAL)

\* Whether the inner for loop over prev_readings reaches its if-branch.
meets_condition(rs, reading_index, lookback, th) ==
    LET prev == prev_readings(rs, reading_index, lookback)
        reading == loop_reading(rs, reading_index, lookback)
    IN  \E k \in 1..Len(prev) : is_critical_pair(reading, prev[k], th)

\* A debounce test that is off by one hour (> 11 in place of > 12).
debounce_passed_off_by_one(reading, last_point) ==
    (reading.dt_reading - last_point.dt_reading) \div 3600 > 11

\* (reading.dt_reading - first_critical_points[-1].dt_reading)
\*     .total_seconds() // 3600 > 12
debounce_passed(reading, last_point) ==
    (reading.dt_reading - last_point.dt_reading) \div 3600 > 12

\* The if / elif / else that decides whether a qualifying reading is
\* appended to first_critical_points.
accepts(first_critical_points, reading) ==
    \/ first_critical_points = << >>
    \/ debounce_passed(reading,
                       first_critical_points[Len(first_critical_points)])

\* enumerate(readings[max_lookback:]): the 0-based loop indices, in order.
loop_indices(rs, lookback) ==
    [k \in 1..Max(Len(rs) - lookback, 0) |-> k - 1]

\* The readings of the loop, in order, for which the inner loop reaches its
\* if-branch (rise >= RISE_CRITICAL and m > M_CRITICAL for some prev_reading).
qualifying_readings(rs, lookback, th) ==
    LET idx == SelectSeq(loop_indices(rs, lookback),
                         LAMBDA ri : meets_condition(rs, ri, lookback, th))
    IN  [k \in 1..Len(idx) |-> loop_reading(rs, idx[k], lookback)]

\* The outer loop of get_first_critical_points over the qualifying readings
\* q from position k on: each is appended when accepts() says so.  The list
\* only changes when a reading is appended, so the loop is run from one
\* appended reading to the next.
RECURSIVE first_critical_points_loop(_, _, _)
first_critical_points_loop(q, k, acc) ==
    LET appended == {j \in k..Len(q) : accepts(acc, q[j])}
    IN  IF appended = {} THEN acc
        ELSE LET j == CHOOSE i \in appended : \A i2 \in appended : i <= i2
             IN  first_critical_points_loop(q, j + 1, Append(acc, q[j]))

\* get_first_critical_points(readings), where it does not raise.
get_first_critical_points(rs, th) ==
    first_critical_points_loop(
        qualifying_readings(rs, max_lookback(rs, th), th), 1, << >>)

\* if reading.height < RIVER_MIN_HEIGHT + RISE_CRITICAL: continue
below_base_level(reading, th) ==
    reading.height < RIVER_MIN_HEIGHT + th.RISE_CRITICAL

\* get_critical_points(readings), where it does not raise: the qualifying
\* readings that are not skipped for being below the base level.
get_critical_points(rs, th) ==
    SelectSeq(qualifying_readings(rs, max_lookback(rs, th), th),
              LAMBDA reading : ~below_base_level(reading, th))

\* get_48hr_readings(first_critical_point, all_readings), for an anchor
\* that all_readings.index() finds and a series get_reading_rate accepts.
get_48hr_readings(first_critical_point, all_readings) ==
    LET readings_per_hr == get_reading_rate(all_readings)
        fcp_index == PyIndex(all_readings, first_critical_point)
        start_index == fcp_index - 24 * readings_per_hr
        end_index == fcp_index + 24 * readings_per_hr
    IN  PySlice(all_readings, start_index, end_index)

\* A get_48hr_readings that does not look the anchor up.
get_48hr_readings_exc_unchecked(first_critical_point, all_readings) ==
    get_reading_rate_exc(all_readings)

\* The exception get_48hr_readings raises, or "None".
get_48hr_readings_exc(first_critical_point, all_readings) ==
    IF get_reading_rate_exc(all_readings) # "None"
    THEN get_reading_rate_exc(all_readings)
    ELSE IF PyIndex(all_readings, first_critical_point) < 0 THEN "ValueError"
    ELSE "None"

\* get_slides_in_range(known_slides, readings), readings not empty.
get_slides_in_range(slides, rs) ==
    LET start == rs[1].dt_reading
        end == rs[Len(rs)].dt_reading
    IN  SelectSeq(slides, LAMBDA slide :
            start <= slide.dt_slide /\ slide.dt_slide <= end)

----------------------------------------------------------------------------
(* The inputs.  A series is a flat river at RIVER_MIN_HEIGHT with a few     *)
(* pulses: from reading index `at` (0-based) the height is raised by `amp`  *)
(* for `width` readings.  Heights are multiples of half a foot, which the   *)
(* code's floats represent exactly.                                         *)

\* The length of a series, in hours.
SeriesHours == 60

\* The most pulses a series has.
MaxPulses == 2

\* The most slides the catalog holds.
MaxSlides == 2

Pulse(at, width, amp) == [at |-> at, width |-> width, amp |-> amp]

PulseHeight(pulses, i) ==
    LET on == {p \in pulses : p.at <= i /\ i < p.at + p.width}
    IN  IF on = {} THEN 0 ELSE (CHOOSE p \in on : TRUE).amp * Cardinality(on)

\* n readings, interval_min minutes apart, the first at start_sec.
MakeReadings(start_sec, interval_min, n, pulses) ==
    [k \in 1..n |-> IRReading(start_sec + (k - 1) * interval_min * 60,
                              RIVER_MIN_HEIGHT + PulseHeight(pulses, k - 1))]

SubsetsUpTo(S, n) == {T \in SUBSET S : Cardinality(T) <= n}

\* Hourly pulses: a 4 ft rise held for 3 hours.
HourlyPulses == {Pulse(at, 3, 400) : at \in {7, 12, 24, 25, 30, 45, 55}}

\* 15-minute pulses: a 4 ft rise held for 2 hours; 97 is 12 h 15 min and 100
\* is 13 h after 48.
QuarterHourPulses == {Pulse(at, 8, 400) : at \in {48, 97, 100}}

HourlySeries ==
    {MakeReadings(0, 60, SeriesHours, ps) :
        ps \in SubsetsUpTo(HourlyPulses, MaxPulses)}

QuarterHourSeries ==
    {MakeReadings(0, 15, 4 * SeriesHours, ps) :
        ps \in SubsetsUpTo(QuarterHourPulses, MaxPulses)}

\* The readings rs, each lowered by d.
Lowered(rs, d) ==
    [k \in DOMAIN rs |-> IRReading(rs[k].dt_reading, rs[k].height - d)]

\* Hourly series of a river 1.5 ft below RIVER_MIN_HEIGHT, with one pulse
\* of 3.5 ft (to 22.5 ft) or of 5 ft (to 24 ft).
LowSeries ==
    {Lowered(MakeReadings(0, 60, SeriesHours, {Pulse(30, 3, amp)}), 150) :
        amp \in {350, 500}}

\* n readings, interval_min minutes apart: flat at RIVER_MIN_HEIGHT up to
\* the reading at index s (0-based), then rising by step with every reading
\* for len readings, then flat.
MakeRamp(interval_min, n, s, len, step) ==
    [k \in 1..n |->
        IRReading((k - 1) * interval_min * 60,
                  RIVER_MIN_HEIGHT + step * Max(0, Min(k - 1 - s, len)))]

\* 15-minute series that rise by 0.13 ft with every reading (0.52 ft/hr)
\* for 10 hours, from the first reading or after a flat stretch.
RampSeries ==
    {MakeRamp(15, 4 * SeriesHours, s, 40, 13) : s \in {0, 10, 60}}

\* Flat hourly series of no more readings than the lookback, and of one
\* more.
ShortSeries ==
    {MakeReadings(0, 60, n, {}) :
        n \in 0..(Ceil(RISE_CRITICAL, M_CRITICAL) + 1)}

\* Flat hourly and 15-minute series, 1.5 ft below and 1.5 ft above
\* RIVER_MIN_HEIGHT.
FlatSeries ==
    {Lowered(MakeReadings(0, interval_min, (60 \div interval_min) * SeriesHours,
                          {}), d) :
        interval_min \in {15, 60}, d \in {-150, 150}}

\* The series the analysis functions are called on directly.
DetectSeries ==
    HourlySeries \cup QuarterHourSeries \cup LowSeries \cup RampSeries
        \cup ShortSeries \cup FlatSeries

----------------------------------------------------------------------------
(* utils/stats.py                                                          *)

None == [none |-> TRUE]

\* A Python list and a Python set, with the type that decides which methods
\* the value has (a set has no append).
PyList(items) == [type |-> "list", items |-> items]

PySet(items) == [type |-> "set", items |-> items]

InitialStats ==
    [notifications_issued |-> 0,
     associated_notifications |-> 0,
     unassociated_notifications |-> 0,
     unassociated_notification_points |-> << >>,
     relevant_slides |-> << >>,
     unassociated_slides |-> PyList(<< >>),
     notification_times |-> [k \in {} |-> 0],
     earliest_reading |-> None,
     latest_reading |-> None]

----------------------------------------------------------------------------
(* utils/analysis_utils.py: get_earliest_latest_readings.                  *)

\* The readings of the reading sets in the order the nested loops of lines
\* 326-327 visit them.
RECURSIVE readings_in_loop_order(_)
readings_in_loop_order(sets) ==
    IF sets = << >> THEN << >>
    ELSE Head(sets) \o readings_in_loop_order(Tail(sets))

\* The exception get_earliest_latest_readings raises, or "None": lines
\* 324-325 index reading_sets[0][0] and reading_sets[-1][-1].
get_earliest_latest_readings_exc(sets) ==
    IF sets = << >> \/ sets[1] = << >> \/ sets[Len(sets)] = << >>
    THEN "IndexError" ELSE "None"

\* Lines 328-332 for one reading: el is [earliest, latest].
earliest_latest_step(el, reading) ==
    IF reading.dt_reading < el.earliest.dt_reading
    THEN [el EXCEPT !.earliest = reading]
    ELSE IF reading.dt_reading > el.latest.dt_reading
    THEN [el EXCEPT !.latest = reading]
    ELSE el

\* The loops of lines 326-332 from the k-th visited reading on.
RECURSIVE earliest_latest_loop(_, _, _)
earliest_latest_loop(el, readings, k) ==
    IF k > Len(readings) THEN el
    ELSE earliest_latest_loop(earliest_latest_step(el, readings[k]),
                              readings, k + 1)

\* A get_earliest_latest_readings that trusts the reading sets to be in
\* chronological order and does not loop.
get_earliest_latest_readings_ends_only(sets, st) ==
    [st EXCEPT !.earliest_reading = sets[1][1],
               !.latest_reading = sets[Len(sets)][Len(sets[Len(sets)])]]

\* get_earliest_latest_readings(reading_sets, stats), where it does not
\* raise: stats with the two readings assigned.
get_earliest_latest_readings(sets, st) ==
    LET el == earliest_latest_loop(
                  [earliest |-> sets[1][1],
                   latest |-> sets[Len(sets)][Len(sets[Len(sets)])]],
                  readings_in_loop_order(sets), 1)
    IN  [st EXCEPT !.earliest_reading = el.earliest,
                   !.latest_reading = el.latest]

----------------------------------------------------------------------------
(* plot_heights.py: the helpers get_reading_sets uses.                     *)

\* A get_relevant_slide whose loop has no break: the last slide in range.
get_relevant_slide_no_break(rs, slides) ==
    LET in_range == {k \in 1..Len(slides) :
                        /\ rs[1].dt_reading <= slides[k].dt_slide
                        /\ slides[k].dt_slide <= rs[Len(rs)].dt_reading}
    IN  IF in_range = {} THEN [none |-> TRUE]
        ELSE slides[CHOOSE k \in in_range : \A j \in in_range : k >= j]

\* get_relevant_slide(readings, known_slides): the first slide of the list
\* with readings[0].dt_reading <= dt_slide <= readings[-1].dt_reading, or
\* None.  rs is not empty.
get_relevant_slide(rs, slides) ==
    LET in_range == {k \in 1..Len(slides) :
                        /\ rs[1].dt_reading <= slides[k].dt_slide
                        /\ slides[k].dt_slide <= rs[Len(rs)].dt_reading}
    IN  IF in_range = {} THEN None
        ELSE slides[CHOOSE k \in in_range : \A j \in in_range : k <= j]

\* get_notification_time(critical_points, relevant_slide), critical_points
\* not empty: int(total_seconds / 60) of dt_slide - critical_points[0].
get_notification_time(critical_points, relevant_slide) ==
    IntDiv(relevant_slide.dt_slide - critical_points[1].dt_reading, 60)

\* A dict as a function: d[key] = value.
DictSet(d, key, value) ==
    [k \in (DOMAIN d) \cup {key} |-> IF k = key THEN value ELSE d[k]]

\* The lowest height of the readings rs, rs not empty.
MinHeight(rs) ==
    LET hs == {rs[k].height : k \in 1..Len(rs)}
    IN  CHOOSE h \in hs : \A h2 \in hs : h <= h2

\* A critical height without the bump to the sustained rate of rise.
critical_height_rise_only(relevant_readings) ==
    MinHeight(relevant_readings) + 250

\* A critical height whose sustained rate of rise is taken from the last
\* relevant reading.
critical_height_from_last(relevant_readings) ==
    LET h == MinHeight(relevant_readings) + 250
        last == relevant_readings[Len(relevant_readings)]
    IN  IF h - last.height < 5 * 50
        THEN 5 * 50 + last.height
        ELSE h

\* plot_data_static, lines 390-399 and 421-430: the lowest height of the
\* relevant readings plus 2.5 ft, bumped to 5 * 0.5 ft above the first
\* relevant reading when m_avg = (critical_height - first height) / 5 is
\* below 0.5.  relevant_readings is not empty.
critical_height(relevant_readings) ==
    LET h == MinHeight(relevant_readings) + 250
    IN  IF h - relevant_readings[1].height < 5 * 50
        THEN 5 * 50 + relevant_readings[1].height
        ELSE h

\* The readings of rs at or after dt_lookback.
readings_since(rs, dt_lookback) ==
    SelectSeq(rs, LAMBDA r : r.dt_reading >= dt_lookback)

\* A loop that puts the points projected so far before the readings of the
\* series in relevant_readings.
RECURSIVE min_cf_loop_projected_first(_, _, _)
min_cf_loop_projected_first(rs, j, min_cf_readings) ==
    IF j > 18 THEN min_cf_readings
    ELSE LET dt == rs[Len(rs)].dt_reading + j * 15 * 60
             relevant_readings ==
                 min_cf_readings \o readings_since(rs, dt - 5 * 3600)
         IN  min_cf_loop_projected_first(rs, j + 1,
                 Append(min_cf_readings,
                        IRReading(dt, critical_height(relevant_readings))))

\* plot_data_static, lines 381-402: the loop over the 18 future readings,
\* 15 minutes apart, from the j-th on; min_cf_readings holds the readings
\* built so far.
RECURSIVE min_cf_loop(_, _, _)
min_cf_loop(rs, j, min_cf_readings) ==
    IF j > 18 THEN min_cf_readings
    ELSE LET dt == rs[Len(rs)].dt_reading + j * 15 * 60
             relevant_readings ==
                 readings_since(rs, dt - 5 * 3600) \o min_cf_readings
         IN  min_cf_loop(rs, j + 1,
                 Append(min_cf_readings,
                        IRReading(dt, critical_height(relevant_readings))))

\* plot_data_static, lines 410-414: the timestamps of the last 12 hours of
\* readings.
prev_datetimes(rs) ==
    LET recent == readings_since(rs, rs[Len(rs)].dt_reading - 12 * 3600)
    IN  [k \in 1..Len(recent) |-> recent[k].dt_reading]

\* plot_data_static, lines 419-420: the readings of the 5 hours before dt.
prev_relevant_readings(rs, dt) ==
    SelectSeq(rs, LAMBDA r : r.dt_reading >= dt - 5 * 3600
                             /\ r.dt_reading < dt)

\* plot_data_static, lines 416-434, where min() is not given an empty list.
min_crit_prev_readings(rs) ==
    LET dts == prev_datetimes(rs)
    IN  [k \in 1..Len(dts) |->
            IRReading(dts[k],
                      critical_height(prev_relevant_readings(rs, dts[k])))]

\* The exception plot_data_static raises while it builds the two curves, or
\* "None": min() of an empty list at line 352 or at line 421.
plot_data_static_exc(rs) ==
    IF rs = << >> THEN "ValueError"
    ELSE IF \E k \in 1..Len(prev_datetimes(rs)) :
                prev_relevant_readings(rs, prev_datetimes(rs)[k]) = << >>
         THEN "ValueError"
         ELSE "None"

\* What plot_data and plot_data_static draw besides the readings: the
\* critical points they are given, and the relevant slide with its
\* notification time (0 when there is no critical point, lines 222-226 and
\* 438-442).
plot_annotations(rs, critical_points, slides) ==
    LET relevant_slide == get_relevant_slide(rs, slides)
    IN  [readings |-> rs,
         critical_points |-> critical_points,
         relevant_slide |-> relevant_slide,
         notification_time |->
             IF relevant_slide = None THEN None
             ELSE IF critical_points = << >> THEN 0
             ELSE get_notification_time(critical_points, relevant_slide)]

\* The figure plot_data(readings, critical_points, known_slides) hands to
\* offline.plot, where it does not raise.
plot_data(rs, critical_points, slides) ==
    plot_annotations(rs, critical_points, slides)

\* The figure plot_data_static(readings, critical_points, known_slides)
\* saves, where it does not raise: the readings and annotations, and the
\* two curves of the heights that would be critical.
plot_data_static(rs, critical_points, slides) ==
    LET a == plot_annotations(rs, critical_points, slides)
    IN  [readings |-> a.readings,
         critical_points |-> a.critical_points,
         relevant_slide |-> a.relevant_slide,
         notification_time |-> a.notification_time,
         min_cf_readings |-> min_cf_loop(rs, 1, << >>),
         min_crit_prev_readings |-> min_crit_prev_readings(rs)]

----------------------------------------------------------------------------
(* The output files: process_hx_data.pickle_reading_set and the files      *)
(* plot_data and plot_data_static write.                                    *)

\* The date in the name of an output file: strftime('%m%d%Y') or
\* __str__()[:10] of the reading's timestamp, here the number of its day.
reading_date(reading) == reading.dt_reading \div 86400

\* The name of the file of one kind written for a reading set: the date of
\* its last reading in a fixed directory and pattern.
output_filename(kind, reading_set) ==
    [kind |-> kind, date |-> reading_date(reading_set[Len(reading_set)])]

\* The exception raised while the file of one kind is written for a reading
\* set, or "None": pickle_reading_set indexes reading_set[-1]; before each
\* plot process_hx_data calls get_critical_points(reading_set), plot_data
\* takes min() of the heights, and plot_data_static takes min() of the
\* readings it projects from.
output_exc(kind, reading_set) ==
    IF kind = "reading_dump.pkl"
    THEN IF reading_set = << >> THEN "IndexError" ELSE "None"
    ELSE IF get_reading_rate_exc(reading_set) # "None"
    THEN get_reading_rate_exc(reading_set)
    ELSE IF kind = "ir_plot.png" THEN plot_data_static_exc(reading_set)
    ELSE "None"

\* What the file of one kind written for a reading set holds: the pickled
\* reading set, or the figure of the plot made with the critical points of
\* the reading set and the known slides (process_hx_data lines 218-233).
output_content(kind, reading_set, slides, th) ==
    IF kind = "reading_dump.pkl" THEN reading_set
    ELSE IF kind = "ir_plot.html"
    THEN plot_data(reading_set, get_critical_points(reading_set, th), slides)
    ELSE plot_data_static(reading_set, get_critical_points(reading_set, th),
                          slides)

\* open(dump_filename, 'wb') and pickle.dump, offline.plot(fig, filename) and
\* plt.savefig(filename): the file of that name now holds this content,
\* whatever it held before.
write_output_file(files, filename, content) ==
    DictSet(files, filename, content)

\* `for reading_set in reading_sets` from the k-th reading set on, writing
\* the files of one kind; the first exception ends the loop.
RECURSIVE output_loop(_, _, _, _, _, _)
output_loop(files, sets, k, kind, slides, th) ==
    IF k > Len(sets) THEN [files |-> files, exc |-> "None"]
    ELSE IF output_exc(kind, sets[k]) # "None"
    THEN [files |-> files, exc |-> output_exc(kind, sets[k])]
    ELSE output_loop(
             write_output_file(files, output_filename(kind, sets[k]),
                               output_content(kind, sets[k], slides, th)),
             sets, k + 1, kind, slides, th)

\* The three loops that follow get_reading_sets in process_hx_data: the
\* pickle files, the interactive plots, the static plots.
RECURSIVE output_loops(_, _, _, _, _)
output_loops(files, sets, kinds, slides, th) ==
    IF kinds = << >> THEN [files |-> files, exc |-> "None"]
    ELSE CHOOSE out \in
             {IF r.exc # "None" THEN r
              ELSE output_loops(r.files, sets, Tail(kinds), slides, th) :
                  r \in {output_loop(files, sets, 1, Head(kinds), slides,
                                     th)}} : TRUE

OutputKinds == << "reading_dump.pkl", "ir_plot.html", "ir_plot.png" >>

----------------------------------------------------------------------------
(* process_hx_data.py: get_reading_sets and summarize_results.  The same   *)
(* statements make up the loop body and the summary of                      *)
(* vary_parameters.analyze_all_data.                                        *)

\* list.remove(x) for x in the list: the list without the first x.
PyRemove(s, x) ==
    LET k == PyIndex(s, x) + 1
    IN  SubSeq(s, 1, k - 1) \o SubSeq(s, k + 1, Len(s))

\* A tracking that keeps the readings of the first data file.
track_earliest_latest_first_only(st, rs) ==
    IF st.earliest_reading = None
    THEN [st EXCEPT !.earliest_reading = rs[1],
                    !.latest_reading = rs[Len(rs)]]
    ELSE st

\* Lines 71-78: the earliest and latest reading across the data files.
track_earliest_latest(st, rs) ==
    IF st.earliest_reading = None
    THEN [st EXCEPT !.earliest_reading = rs[1],
                    !.latest_reading = rs[Len(rs)]]
    ELSE LET st1 == IF rs[1].dt_reading < st.earliest_reading.dt_reading
                    THEN [st EXCEPT !.earliest_reading = rs[1]] ELSE st
         IN  IF rs[Len(rs)].dt_reading > st1.latest_reading.dt_reading
             THEN [st1 EXCEPT !.latest_reading = rs[Len(rs)]] ELSE st1

\* An unassociated notification whose counter is not incremented.
record_unassociated_uncounted(st, point) ==
    [st EXCEPT !.unassociated_notification_points = Append(@, point)]

\* Lines 112-114: an unassociated notification.
record_unassociated(st, point) ==
    [st EXCEPT !.unassociated_notification_points = Append(@, point),
               !.unassociated_notifications = @ + 1]

\* Lines 102-103: an associated notification.
record_associated(st, relevant_slide) ==
    [st EXCEPT !.relevant_slides = Append(@, relevant_slide),
               !.associated_notifications = @ + 1]

\* A removal that takes the slide out of the catalog as well.
remove_relevant_slide_from_catalog(ls, relevant_slide) ==
    [ls EXCEPT !.slides_in_range = PyRemove(@, relevant_slide),
               !.known_slides = PyRemove(@, relevant_slide)]

\* Line 109: slides_in_range.remove(relevant_slide), relevant_slide in the
\* list.  slides_in_range is the list get_slides_in_range built, an object
\* of its own, so the catalog keeps the slide.
remove_relevant_slide(ls, relevant_slide) ==
    [ls EXCEPT !.slides_in_range = PyRemove(@, relevant_slide)]

\* One pass of the loop `for reading_set in critical_reading_sets` (lines
\* 98-114) from the loop state ls = [stats, slides_in_range, known_slides,
\* exc], known_slides the catalog as the statements so far have left it.
classify_reading_set(ls, reading_set, th) ==
    IF get_reading_rate_exc(reading_set) # "None"
    THEN \* get_critical_points(reading_set) raises.
         [ls EXCEPT !.exc = get_reading_rate_exc(reading_set)]
    ELSE
    LET critical_points == get_critical_points(reading_set, th)
        relevant_slide == get_relevant_slide(reading_set, ls.known_slides)
    IN  IF relevant_slide # None
        THEN LET st1 == record_associated(ls.stats, relevant_slide)
             IN  IF critical_points = << >>
                 THEN \* critical_points[0] in get_notification_time.
                      [ls EXCEPT !.stats = st1, !.exc = "IndexError"]
                 ELSE
                 LET st2 == [st1 EXCEPT !.notification_times =
                                 DictSet(@, relevant_slide,
                                     get_notification_time(critical_points,
                                                           relevant_slide))]
                 IN  IF relevant_slide \notin SeqToSet(ls.slides_in_range)
                     THEN \* slides_in_range.remove(relevant_slide)
                          [ls EXCEPT !.stats = st2, !.exc = "ValueError"]
                     ELSE remove_relevant_slide([ls EXCEPT !.stats = st2],
                                                relevant_slide)
        ELSE IF critical_points = << >>
             THEN [ls EXCEPT !.exc = "IndexError"]
             ELSE [ls EXCEPT !.stats =
                       record_unassociated(@, critical_points[1])]

\* The loop over critical_reading_sets from position k, stopping at the
\* first exception.
RECURSIVE classify_loop(_, _, _, _)
classify_loop(ls, critical_reading_sets, k, th) ==
    IF k > Len(critical_reading_sets) \/ ls.exc # "None" THEN ls
    ELSE classify_loop(
             classify_reading_set(ls, critical_reading_sets[k], th),
             critical_reading_sets, k + 1, th)

\* Lines 119-126: the reading set around an unassociated slide, as a list
\* of no or one reading set (none when no reading is later than the slide).
slide_readings(slide, rs) ==
    LET later == {k \in 1..Len(rs) : rs[k].dt_reading > slide.dt_slide}
    IN  IF later = {} THEN << >>
        ELSE << get_48hr_readings(
                    rs[CHOOSE k \in later : \A j \in later : k <= j], rs) >>

RECURSIVE slide_reading_sets(_, _, _)
slide_reading_sets(slides_in_range, k, rs) ==
    IF k > Len(slides_in_range) THEN << >>
    ELSE slide_readings(slides_in_range[k], rs)
             \o slide_reading_sets(slides_in_range, k + 1, rs)

\* get_reading_sets(readings, known_slides, stats): the stats it leaves,
\* the exception it raises (or "None"), the list it returns and the catalog
\* known_slides as it leaves it.
get_reading_sets(rs, slides, st, th) ==
    IF rs = << >>
    THEN [stats |-> st, exc |-> "IndexError", ret |-> << >>,
          known_slides |-> slides]
    ELSE
    LET st1 == track_earliest_latest(st, rs)
        slides_in_range == get_slides_in_range(slides, rs)
    IN  IF get_reading_rate_exc(rs) # "None"
        THEN [stats |-> st1, exc |-> get_reading_rate_exc(rs), ret |-> << >>,
              known_slides |-> slides]
        ELSE
        LET first_critical_points == get_first_critical_points(rs, th)
            st2 == [st1 EXCEPT !.notifications_issued =
                                   @ + Len(first_critical_points)]
            critical_reading_sets ==
                [k \in 1..Len(first_critical_points) |->
                    get_48hr_readings(first_critical_points[k], rs)]
            ls == classify_loop([stats |-> st2,
                                 slides_in_range |-> slides_in_range,
                                 known_slides |-> slides,
                                 exc |-> "None"],
                                critical_reading_sets, 1, th)
        IN  IF ls.exc # "None"
            THEN [stats |-> ls.stats, exc |-> ls.exc, ret |-> << >>,
                  known_slides |-> ls.known_slides]
            ELSE IF /\ ls.slides_in_range # << >>
                    /\ ls.stats.unassociated_slides.type # "list"
            THEN \* stats['unassociated_slides'].append(slide) on a set.
                 [stats |-> ls.stats, exc |-> "AttributeError", ret |-> << >>,
                  known_slides |-> ls.known_slides]
            ELSE [stats |-> IF ls.slides_in_range = << >> THEN ls.stats
                            ELSE [ls.stats EXCEPT !.unassociated_slides =
                                     PyList(@.items \o ls.slides_in_range)],
                  exc |-> "None",
                  ret |-> critical_reading_sets
                            \o slide_reading_sets(ls.slides_in_range, 1, rs),
                  known_slides |-> ls.known_slides]

\* A range test that misses the slides after the latest reading.
outside_range_before_only(slide, st) ==
    slide.dt_slide < st.earliest_reading.dt_reading

\* Lines 149-150: the slide is before the earliest or after the latest
\* reading.
outside_range(slide, st) ==
    \/ slide.dt_slide < st.earliest_reading.dt_reading
    \/ slide.dt_slide > st.latest_reading.dt_reading

\* The loop of lines 148-152 from position k of known_slides, on
\* ss = [unassociated, outside, exc].
RECURSIVE outside_range_loop(_, _, _, _)
outside_range_loop(ss, slides, k, st) ==
    IF k > Len(slides) \/ ss.exc # "None" THEN ss
    ELSE outside_range_loop(
             IF ~outside_range(slides[k], st) THEN ss
             ELSE IF slides[k] \notin ss.unassociated
                  THEN [ss EXCEPT !.exc = "KeyError"]
                  ELSE [ss EXCEPT !.unassociated = @ \ {slides[k]},
                                  !.outside = Append(@, slides[k])],
             slides, k + 1, st)

\* summarize_results(known_slides, stats): the stats it leaves, its
\* slides_outside_range and the exception it raises (or "None").
summarize_results(slides, st) ==
    IF st.unassociated_notifications
           # Len(st.unassociated_notification_points)
    THEN [stats |-> st, outside |-> << >>, exc |-> "AssertionError"]
    ELSE
    LET ss == outside_range_loop(
                  [unassociated |-> SeqToSet(slides)
                                        \ SeqToSet(st.relevant_slides),
                   outside |-> << >>,
                   exc |-> "None"],
                  slides, 1, st)
    IN  [stats |-> [st EXCEPT !.unassociated_slides =
                                  PySet(ss.unassociated)],
         outside |-> ss.outside,
         exc |-> ss.exc]

\* utils.analysis_utils.summarize_results(reading_sets, known_slides,
\* stats), lines 339-372: get_earliest_latest_readings on the reading sets
\* first, then the statements of process_hx_data's summarize_results.
analysis_utils_summarize_results(sets, slides, st) ==
    IF get_earliest_latest_readings_exc(sets) # "None"
    THEN [stats |-> st, outside |-> << >>,
          exc |-> get_earliest_latest_readings_exc(sets)]
    ELSE summarize_results(slides, get_earliest_latest_readings(sets, st))

\* The counts summarize_results prints: notifications issued, true
\* positives, false positives and false negatives.
printed_counts(st) ==
    [notifications_issued |-> st.notifications_issued,
     true_positives |-> st.associated_notifications,
     false_positives |-> st.unassociated_notifications,
     false_negatives |-> Cardinality(st.unassociated_slides.items)]

----------------------------------------------------------------------------
(* vary_parameters.py: analyze_all_data.  Its loop over the data files and  *)
(* its summary are the statements of get_reading_sets and summarize_results *)
(* on local variables that start as utils.stats.stats does, with one        *)
(* statement more: lines 91-92 print every first critical point.            *)

\* Lines 91-92: reading.get_formatted_reading() for every first critical
\* point.  IRReading is a namedtuple and get_formatted_reading a function of
\* the module ir_reading, so the attribute lookup fails on the first point.
print_first_critical_points_exc(first_critical_points) ==
    IF first_critical_points = << >> THEN "None" ELSE "AttributeError"

\* One pass of the loop body, lines 69-126, on the readings of one file.
\* What precedes line 91 raises as it does in get_reading_sets; when line 92
\* does not raise, the rest of the body is that of get_reading_sets.
analyze_data_file(rs, slides, st, th) ==
    IF rs = << >> \/ get_reading_rate_exc(rs) # "None"
    THEN get_reading_sets(rs, slides, st, th)
    ELSE IF print_first_critical_points_exc(
                get_first_critical_points(rs, th)) # "None"
    THEN [stats |-> st,
          exc |-> print_first_critical_points_exc(
                      get_first_critical_points(rs, th))]
    ELSE get_reading_sets(rs, slides, st, th)

\* The loop `for data_file in data_files` from the k-th file on, with the
\* local counters st; it stops at the first exception.
RECURSIVE analyze_data_files(_, _, _, _, _)
analyze_data_files(files, k, slides, st, th) ==
    IF k > Len(files) THEN [stats |-> st, exc |-> "None"]
    ELSE LET rest(r) ==
                 IF r.exc # "None" THEN [stats |-> r.stats, exc |-> r.exc]
                 ELSE analyze_data_files(files, k + 1, slides, r.stats, th)
         IN  CHOOSE out \in
                 {rest(r) : r \in {analyze_data_file(files[k], slides,
                                                     st, th)}} : TRUE

\* list(notification_times.values()): the values in the order the keys were
\* first inserted, which is the order of their first appearance in
\* relevant_slides.
notification_time_values(st) ==
    LET l == st.relevant_slides
        positions == [k \in 1..Len(l) |-> k]
        firsts == SelectSeq(positions,
                            LAMBDA k : \A j \in 1..(k - 1) : l[j] # l[k])
    IN  [k \in 1..Len(firsts) |-> st.notification_times[l[firsts[k]]]]

\* analyze_all_data from line 46 on, th the thresholds lines 37-38 have
\* assigned: the exception it raises (or "None") and the results_dict it
\* appends to all_results, without the two name entries.
analyze_all_data(files, slides, th) ==
    LET summary(q) ==
            IF q.exc # "None" THEN [exc |-> q.exc, results_dict |-> None]
            ELSE [exc |-> "None",
                  results_dict |->
                      [critical_rise |-> th.RISE_CRITICAL,
                       critical_slope |-> th.M_CRITICAL,
                       true_positives |-> q.stats.associated_notifications,
                       false_positives |->
                           q.stats.unassociated_notifications,
                       false_negatives |->
                           Cardinality(q.stats.unassociated_slides.items),
                       notification_times |->
                           notification_time_values(q.stats)]]
        after_loop(r) ==
            IF r.exc # "None" THEN [exc |-> r.exc, results_dict |-> None]
            ELSE CHOOSE out \in
                     {summary(q) :
                          q \in {summarize_results(slides, r.stats)}} : TRUE
    IN  CHOOSE out \in
            {after_loop(r) :
                 r \in {analyze_data_files(files, 1, slides,
                                           InitialStats, th)}} : TRUE

----------------------------------------------------------------------------
(* Direct calls of the analysis functions on one series.  The functions    *)
(* keep no state between calls, so a behaviour makes one call.              *)

\* The lists of up to n distinct elements of S.
RECURSIVE ListsUpTo(_, _)
ListsUpTo(S, n) ==
    IF n = 0 THEN {<< >>}
    ELSE LET shorter == ListsUpTo(S, n - 1)
         IN  shorter \cup
             {l \in {Append(l0, x) : l0 \in shorter, x \in S} :
                 \A i, j \in 1..Len(l) : l[i] = l[j] => i = j}

\* A SlideEvent object created by the first load_slides call.
SlideEvent(name, dt_slide) ==
    [name |-> name, dt_slide |-> dt_slide, load |-> 1]

\* SlideEvent.load_slides(slides_file), the n-th call in the process: new
\* objects for the slides of the catalog file, in the order of the file.
load_slides(catalog, n) ==
    [k \in DOMAIN catalog |-> [catalog[k] EXCEPT !.load = n]]

\* Known slides: 3 hours before the first reading, at hours 40 and 56, and
\* at hour 200, after every reading.
SlidePool ==
    {SlideEvent("before", -3 * 3600), SlideEvent("h40", 40 * 3600),
     SlideEvent("h56", 56 * 3600), SlideEvent("after", 200 * 3600)}

Catalogs == ListsUpTo(SlidePool, MaxSlides)

\* The catalogs of at most one slide.
ShortCatalogs == {c \in Catalogs : Len(c) <= 1}

NoCall == [fn |-> "none", anchor |-> None]

Returned(val) == [exc |-> "None", val |-> val]

Raised(e) == [exc |-> e, val |-> << >>]

InitDetect ==
    /\ series \in DetectSeries
    /\ call = NoCall
    /\ result = Returned(<< >>)
    /\ known_slides = << >>
    /\ data_files = << >>
    /\ file_index = 0
    /\ stats = InitialStats
    /\ reading_sets = << >>
    /\ output_files = << >>
    /\ slides_outside_range = << >>
    /\ pc = "idle"
    /\ exc = "None"
    /\ run = 0
    /\ summaries = << >>
    /\ a_utils = DefaultThresholds
    /\ all_results = << >>

CallGetFirstCriticalPoints ==
    /\ call = NoCall
    /\ call' = [fn |-> "get_first_critical_points", anchor |-> None]
    /\ result' = IF get_reading_rate_exc(series) # "None"
                 THEN Raised(get_reading_rate_exc(series))
                 ELSE Returned(get_first_critical_points(series, a_utils))
    /\ UNCHANGED <<series, batch_vars, sweep_vars>>

CallGetCriticalPoints ==
    /\ call = NoCall
    /\ call' = [fn |-> "get_critical_points", anchor |-> None]
    /\ result' = IF get_reading_rate_exc(series) # "None"
                 THEN Raised(get_reading_rate_exc(series))
                 ELSE Returned(get_critical_points(series, a_utils))
    /\ UNCHANGED <<series, batch_vars, sweep_vars>>

\* Readings that are not in rs: one an hour before the analysed period and
\* one with the timestamp of the first reading but another height.
Strangers(rs) ==
    {IRReading(-3600, RIVER_MIN_HEIGHT)}
        \cup {IRReading(rs[k].dt_reading, rs[k].height + 5) :
                  k \in {1} \cap DOMAIN rs}

\* get_48hr_readings(anchor, series), the anchor a reading of the series or
\* a reading that is not in it.
CallGet48hrReadings ==
    /\ call = NoCall
    /\ \E anchor \in SeqToSet(series) \cup Strangers(series) :
         /\ call' = [fn |-> "get_48hr_readings", anchor |-> anchor]
         /\ result' = IF get_48hr_readings_exc(anchor, series) # "None"
                      THEN Raised(get_48hr_readings_exc(anchor, series))
                      ELSE Returned(get_48hr_readings(anchor, series))
         /\ UNCHANGED <<series, batch_vars, sweep_vars>>

\* plot_data_static(series), with no critical points and no known slides
\* (the defaults): the figure is saved under the name made from the date of
\* the last reading, and None is returned.
CallPlotDataStatic ==
    /\ call = NoCall
    /\ call' = [fn |-> "plot_data_static", anchor |-> None]
    /\ result' = IF plot_data_static_exc(series) # "None"
                 THEN Raised(plot_data_static_exc(series))
                 ELSE Returned(<< >>)
    /\ output_files' =
           IF plot_data_static_exc(series) # "None" THEN output_files
           ELSE write_output_file(output_files,
                                  output_filename("ir_plot.png", series),
                                  plot_data_static(series, << >>, << >>))
    /\ UNCHANGED <<series, known_slides, data_files, file_index, stats,
                   reading_sets, slides_outside_range, pc, exc, run,
                   summaries, sweep_vars>>

\* Reading sets cut from the series: the first, the middle and the last
\* ChunkLen readings, and a reading set without readings.
ChunkLen == 4

ReadingSetPool(rs) ==
    {SubSeq(rs, a, a + ChunkLen - 1) :
         a \in {b \in {1, Len(rs) \div 2, Len(rs) - ChunkLen + 1} :
                    b >= 1 /\ b + ChunkLen - 1 <= Len(rs)}}
        \cup {<< >>}

MaxReadingSets == 3

\* get_earliest_latest_readings(reading_sets, stats) on up to MaxReadingSets
\* reading sets of the series in any order, or on none.
CallGetEarliestLatestReadings ==
    /\ call = NoCall
    /\ \E sets \in ListsUpTo(ReadingSetPool(series), MaxReadingSets) :
         /\ call' = [fn |-> "get_earliest_latest_readings", anchor |-> sets]
         /\ result' = IF get_earliest_latest_readings_exc(sets) # "None"
                      THEN Raised(get_earliest_latest_readings_exc(sets))
                      ELSE Returned(<< >>)
         /\ stats' = IF get_earliest_latest_readings_exc(sets) # "None"
                     THEN stats
                     ELSE get_earliest_latest_readings(sets, stats)
    /\ UNCHANGED <<series, known_slides, data_files, file_index,
                   reading_sets, output_files, slides_outside_range, pc,
                   exc, run, summaries, sweep_vars>>

\* utils.analysis_utils.summarize_results(reading_sets, known_slides, stats)
\* on up to MaxReadingSets reading sets of the series in any order and a
\* catalog of at most one slide; it returns None.
CallSummarizeResults ==
    /\ call = NoCall
    /\ \E sets \in ListsUpTo(ReadingSetPool(series), MaxReadingSets) :
       \E slides \in ShortCatalogs :
       \E r \in {analysis_utils_summarize_results(sets, slides, stats)} :
         /\ call' = [fn |-> "summarize_results",
                     anchor |-> [reading_sets |-> sets,
                                 known_slides |-> slides]]
         /\ result' = IF r.exc # "None" THEN Raised(r.exc)
                      ELSE Returned(<< >>)
         /\ stats' = r.stats
    /\ UNCHANGED <<series, known_slides, data_files, file_index,
                   reading_sets, output_files, slides_outside_range, pc,
                   exc, run, summaries, sweep_vars>>

NextDetect ==
    \/ CallGetFirstCriticalPoints
    \/ CallGetCriticalPoints
    \/ CallGet48hrReadings
    \/ CallPlotDataStatic
    \/ CallGetEarliestLatestReadings
    \/ CallSummarizeResults

SpecDetect == InitDetect /\ [][NextDetect]_vars

----------------------------------------------------------------------------
(* The batch run: process_hx_data calls get_reading_sets on each data file  *)
(* in turn and summarize_results at the end; an exception ends the run.     *)
(* After each get_reading_sets call the returned reading sets are pickled   *)
(* and plotted.                                                             *)

\* The pulses of the data files: 4 ft held for 3 hours.
BatchPulses == {Pulse(at, 3, 400) : at \in {12, 30, 45}}

\* The start of the second data file: with the first, or 6 hours after its
\* last hour.
SecondFileStarts == {0, (SeriesHours + 6) * 3600}

BatchInputs ==
    {<< MakeReadings(0, 60, SeriesHours, ps1),
        MakeReadings(start, 60, SeriesHours, ps2) >> :
        ps1 \in SubsetsUpTo(BatchPulses, MaxPulses),
        ps2 \in SubsetsUpTo(BatchPulses, MaxPulses),
        start \in SecondFileStarts}

\* Data files of a river below RIVER_MIN_HEIGHT, followed by a flat file.
LowBatchInputs ==
    {<< low, MakeReadings(start, 60, SeriesHours, {}) >> :
        low \in LowSeries, start \in SecondFileStarts}

\* Data files out of chronological order: a flat second file that starts
\* before the first, apart from it or overlapping it, or half way into it.
ShiftedBatchInputs ==
    {<< MakeReadings(0, 60, SeriesHours, ps),
        MakeReadings(start, 60, SeriesHours, {}) >> :
        ps \in SubsetsUpTo(BatchPulses, 1),
        start \in {-(SeriesHours + 6) * 3600, -(SeriesHours \div 2) * 3600,
                   (SeriesHours \div 2) * 3600}}

Init ==
    /\ known_slides \in Catalogs
    /\ data_files \in BatchInputs \cup LowBatchInputs \cup ShiftedBatchInputs
    /\ file_index = 0
    /\ stats = InitialStats
    /\ reading_sets = << >>
    /\ output_files = << >>
    /\ slides_outside_range = << >>
    /\ pc = "files"
    /\ exc = "None"
    /\ run = 1
    /\ summaries = << >>
    /\ a_utils = DefaultThresholds
    /\ all_results = << >>
    /\ series = << >>
    /\ call = NoCall
    /\ result = Returned(<< >>)

\* One pass of `for data_file in data_files`, first statement:
\* get_reading_sets on the next data file.
GetReadingSets ==
    /\ pc = "files"
    /\ file_index < Len(data_files)
    /\ LET r == get_reading_sets(data_files[file_index + 1], known_slides,
                                 stats, a_utils)
       IN  /\ stats' = r.stats
           /\ known_slides' = r.known_slides
           /\ exc' = r.exc
           /\ reading_sets' = IF r.exc = "None" THEN r.ret ELSE reading_sets
           /\ pc' = IF r.exc # "None" THEN "raised" ELSE "output"
    /\ file_index' = file_index + 1
    /\ UNCHANGED <<data_files, output_files, slides_outside_range, run,
                   summaries, sweep_vars, call_vars>>

\* The rest of the pass: the reading sets are pickled and plotted, and the
\* loop goes on to the next data file or ends.
WriteOutputFiles ==
    /\ pc = "output"
    /\ \E r \in {output_loops(output_files, reading_sets, OutputKinds,
                             known_slides, a_utils)} :
           /\ output_files' = r.files
           /\ exc' = r.exc
           /\ pc' = IF r.exc # "None" THEN "raised"
                    ELSE IF file_index = Len(data_files) THEN "summarize"
                    ELSE "files"
    /\ UNCHANGED <<known_slides, data_files, file_index, stats,
                   reading_sets, slides_outside_range, run, summaries,
                   sweep_vars, call_vars>>

\* summarize_results(known_slides, stats) after the last data file.
SummarizeResults ==
    /\ pc = "summarize"
    /\ LET r == summarize_results(known_slides, stats)
       IN  /\ stats' = r.stats
           /\ slides_outside_range' = r.outside
           /\ exc' = r.exc
           /\ pc' = IF r.exc # "None" THEN "raised" ELSE "done"
           /\ summaries' = IF r.exc # "None" THEN summaries
                            ELSE Append(summaries, printed_counts(r.stats))
    /\ UNCHANGED <<known_slides, data_files, file_index, reading_sets,
                   output_files, run, sweep_vars, call_vars>>

\* process_hx_data() is called a second time in the same process: the
\* locals start afresh and the catalog is loaded again (line 195), the
\* module-level stats is the dict the first call left.
ProcessHxDataAgain ==
    /\ pc = "done"
    /\ run = 1
    /\ run' = 2
    /\ pc' = "files"
    /\ file_index' = 0
    /\ known_slides' = load_slides(known_slides, run + 1)
    /\ reading_sets' = << >>
    /\ slides_outside_range' = << >>
    /\ UNCHANGED <<data_files, stats, output_files, exc,
                   summaries, sweep_vars, call_vars>>

Next ==
    \/ GetReadingSets
    \/ WriteOutputFiles
    \/ SummarizeResults
    \/ ProcessHxDataAgain

Spec == Init /\ [][Next]_vars

----------------------------------------------------------------------------
(* A parameter sweep followed by the batch run in the same process:         *)
(* analyze_all_data is called with the thresholds of a trial, up to twice,  *)
(* and then process_hx_data runs.                                           *)

\* The (rise_critical, m_critical) of the trials: 2.5 ft and 0.5 ft/hr, and
\* 3 ft and 0.75 ft/hr.
SweepTrials == {<<250, 50>>, <<300, 75>>}

\* Rises of 4 ft, which both trials detect, and of 3.5 ft, which only the
\* thresholds 2.5 ft and 0.5 ft/hr detect.
SweepPulses == BatchPulses \cup {Pulse(at, 3, 350) : at \in {12, 30, 45}}

SweepInputs ==
    {<< MakeReadings(0, 60, SeriesHours, ps),
        MakeReadings((SeriesHours + 6) * 3600, 60, SeriesHours, {}) >> :
        ps \in SubsetsUpTo(SweepPulses, MaxPulses)}

SweepCatalogs == ShortCatalogs

InitSweep ==
    /\ known_slides \in SweepCatalogs
    /\ data_files \in SweepInputs
    /\ file_index = 0
    /\ stats = InitialStats
    /\ reading_sets = << >>
    /\ output_files = << >>
    /\ slides_outside_range = << >>
    /\ pc = "files"
    /\ exc = "None"
    /\ run = 1
    /\ summaries = << >>
    /\ a_utils = DefaultThresholds
    /\ all_results = << >>
    /\ series = << >>
    /\ call = NoCall
    /\ result = Returned(<< >>)

\* analyze_all_data(rise_critical, m_critical, all_results=all_results):
\* lines 37-38 assign the module globals of analysis_utils, and the analysis
\* runs with them.
AnalyzeAllData ==
    /\ pc = "files"
    /\ file_index = 0
    /\ Len(all_results) < 2
    /\ \E trial \in SweepTrials :
         LET th == [RISE_CRITICAL |-> trial[1], M_CRITICAL |-> trial[2]]
         IN  \E r \in {analyze_all_data(data_files, known_slides, th)} :
             /\ a_utils' = th
             /\ all_results' = IF r.exc # "None" THEN all_results
                                ELSE Append(all_results, r.results_dict)
             /\ exc' = r.exc
             /\ pc' = IF r.exc # "None" THEN "raised" ELSE pc
    /\ UNCHANGED <<known_slides, data_files, file_index, stats,
                   reading_sets, output_files, slides_outside_range, run,
                   summaries, call_vars>>

NextSweep ==
    \/ AnalyzeAllData
    \/ GetReadingSets
    \/ WriteOutputFiles
    \/ SummarizeResults

SpecSweep == InitSweep /\ [][NextSweep]_vars

----------------------------------------------------------------------------
(* Claims about the detection and windowing functions (SpecDetect).        *)

Detected ==
    /\ call.fn \in {"get_first_critical_points", "get_critical_points"}
    /\ result.exc = "None"

\* C1 (as claimed): in get_critical_points and get_first_critical_points the
\* reading at index i >= lookback is compared against exactly the lookback
\* readings immediately preceding it, those at indices i-lookback .. i-1.
\* With enumerate() index ri = i - lookback these are the 1-based positions
\* ri+1 .. ri+lookback of the series.
C1_PrevReadingsImmediatelyPrecede ==
    Detected =>
        LET lookback == max_lookback(series, a_utils)
        IN  \A ri \in 0..(Len(series) - lookback - 1) :
                prev_readings(series, ri, lookback)
                    = SubSeq(series, ri + 1, ri + lookback)

\* The last element of the list f that is earlier than reading r, as a set
\* (empty when there is none).
LastBefore(f, r) ==
    {x \in SeqToSet(f) :
        /\ x.dt_reading < r.dt_reading
        /\ \A y \in SeqToSet(f) :
               y.dt_reading < r.dt_reading => y.dt_reading <= x.dt_reading}

\* C2 (as claimed): get_first_critical_points accepts a reading that meets
\* the rise/rate condition exactly when no point has been accepted yet or
\* the reading is more than 12 hours after the most recently accepted point.
C2_AcceptedIffMoreThan12Hours ==
    (call.fn = "get_first_critical_points" /\ result.exc = "None") =>
        LET q == qualifying_readings(series,
                                     max_lookback(series, a_utils), a_utils)
        IN  \A k \in 1..Len(q) :
                (q[k] \in SeqToSet(result.val))
                    <=> \A x \in LastBefore(result.val, q[k]) :
                            q[k].dt_reading - x.dt_reading > 12 * 3600

\* C3: the list get_first_critical_points returns is in strictly increasing
\* timestamp order, every element is a reading of the series, and any two
\* consecutive elements are more than 12 hours apart.
C3_FirstCriticalPointsSpaced ==
    (call.fn = "get_first_critical_points" /\ result.exc = "None") =>
        LET f == result.val
        IN  /\ \A k \in 1..Len(f) : f[k] \in SeqToSet(series)
            /\ \A k \in 1..(Len(f) - 1) :
                   /\ f[k].dt_reading < f[k + 1].dt_reading
                   /\ f[k + 1].dt_reading - f[k].dt_reading > 12 * 3600

\* C3's case: a series with several first critical points.
C3_Witness ==
    /\ call.fn = "get_first_critical_points"
    /\ result.exc = "None"
    /\ Len(result.val) >= 2

\* C4 (as claimed): for the anchor at index i, get_48hr_readings returns the
\* contiguous sub-range series[max(0, i-offset) .. min(len, i+offset)-1],
\* offset = 24 * readings per hour: at most 2*offset readings, starting at
\* index 0 when the anchor is fewer than offset positions from the start.
C4_WindowClamped ==
    (call.fn = "get_48hr_readings" /\ call.anchor \in SeqToSet(series)) =>
        LET offset == 24 * get_reading_rate(series)
            i == PyIndex(series, call.anchor)
        IN  /\ result.exc = "None"
            /\ result.val = SubSeq(series, Max(0, i - offset) + 1,
                                   Min(Len(series), i + offset))
            /\ Len(result.val) <= 2 * offset

\* The figure the plot_data_static call saved.
Plot == output_files[output_filename("ir_plot.png", series)]

\* plot_data_static has built its two curves.
Projected == call.fn = "plot_data_static" /\ result.exc = "None"

\* The readings of rs with a timestamp in [t - 5 h, t).
TrailingWindow(rs, t) ==
    SelectSeq(rs, LAMBDA r : t - 5 * 3600 <= r.dt_reading /\ r.dt_reading < t)

\* The window of the j-th point of the forward curve: the readings of the
\* series and the points projected before it.
ForwardWindow(j) ==
    TrailingWindow(series \o SubSeq(Plot.min_cf_readings, 1, j - 1),
                   Plot.min_cf_readings[j].dt_reading)

\* The window of the k-th point of the backward curve.
BackwardWindow(k) ==
    TrailingWindow(series, Plot.min_crit_prev_readings[k].dt_reading)

\* A reading of height h at t meets the detector's condition, a rise of at
\* least 2.5 ft at a slope above 0.5 ft/hr, against some reading of w.
CriticalAgainst(w, t, h) ==
    \E k \in 1..Len(w) :
        /\ h - w[k].height >= 250
        /\ (h - w[k].height) * 3600 > 50 * (t - w[k].dt_reading)

\* h is the lowest height that is critical at t against w.  No height
\* below the lowest of w plus 2.5 ft has the rise against any reading.
MinimalCritical(w, point) ==
    /\ CriticalAgainst(w, point.dt_reading, point.height)
    /\ \A h \in (MinHeight(w) + 250)..(point.height - 1) :
           ~CriticalAgainst(w, point.dt_reading, h)

\* C11 (as claimed): every projected height is the minimal height at which
\* a reading at the projected timestamp would itself be a critical point
\* against the trailing 5-hour window.
C11_ProjectedHeightMinimal ==
    Projected =>
        /\ \A j \in 1..Len(Plot.min_cf_readings) :
               MinimalCritical(ForwardWindow(j),
                               Plot.min_cf_readings[j])
        /\ \A k \in 1..Len(Plot.min_crit_prev_readings) :
               MinimalCritical(BackwardWindow(k),
                               Plot.min_crit_prev_readings[k])

\* The two-step rule for the height h projected from the window w.
FollowsRule(w, h) ==
    LET lowest == MinHeight(w)
        first == w[1].height
    IN  /\ h = IF lowest + 250 - first >= 5 * 50
               THEN lowest + 250 ELSE first + 5 * 50
        /\ h - lowest >= 250
        /\ h - first >= 5 * 50

\* C12: every height of the forward and of the backward curve is the lowest
\* height of its window plus 2.5 ft when that is at least 5 * 0.5 ft above
\* the first reading of the window, and the first reading's height plus
\* 5 * 0.5 ft otherwise; so it is at least 2.5 ft above the lowest and at
\* least 5 * 0.5 ft above the first reading of the window.
C12_ProjectedHeightRule ==
    Projected =>
        /\ Len(Plot.min_cf_readings) = 18
        /\ \A j \in 1..Len(Plot.min_cf_readings) :
               FollowsRule(ForwardWindow(j),
                           Plot.min_cf_readings[j].height)
        /\ \A k \in 1..Len(Plot.min_crit_prev_readings) :
               FollowsRule(BackwardWindow(k),
                           Plot.min_crit_prev_readings[k].height)

\* C12's case: on both curves a point whose window starts above its lowest
\* reading, and on the backward curve one whose window starts at its lowest.
C12_Witness ==
    /\ Projected
    /\ \E j \in 1..Len(Plot.min_cf_readings) :
           ForwardWindow(j)[1].height > MinHeight(ForwardWindow(j))
    /\ \E k \in 1..Len(Plot.min_crit_prev_readings) :
           BackwardWindow(k)[1].height > MinHeight(BackwardWindow(k))
    /\ \E k \in 1..Len(Plot.min_crit_prev_readings) :
           BackwardWindow(k)[1].height = MinHeight(BackwardWindow(k))

\* Every reading of rs has the height of the first.
IsFlat(rs) == \A k \in 1..Len(rs) : rs[k].height = rs[1].height

\* C21: for a series that is flat at a height H, each of the 18 heights of
\* the forward curve is H + 2.5 ft: the bump to the sustained rate of rise
\* never raises it.
C21_FlatForwardThreshold ==
    (Projected /\ IsFlat(series)) =>
        /\ Len(Plot.min_cf_readings) = 18
        /\ \A j \in 1..Len(Plot.min_cf_readings) :
               Plot.min_cf_readings[j].height = series[1].height + 250

\* C21's case: the forward curve of a flat series, at RIVER_MIN_HEIGHT and
\* at another height, hourly and every 15 minutes.
C21_Witness ==
    /\ Projected
    /\ IsFlat(series)
    /\ series[1].height # RIVER_MIN_HEIGHT
    /\ reading_interval(series) = 15
    /\ Len(Plot.min_cf_readings) = 18

\* The timestamps of the readings of rs within 12 hours of the last.
Trailing12Hours(rs) ==
    LET recent == SelectSeq(rs, LAMBDA r :
                      r.dt_reading >= rs[Len(rs)].dt_reading - 12 * 3600)
    IN  [k \in 1..Len(recent) |-> recent[k].dt_reading]

\* C22 (as claimed): on every non-empty series plot_data_static does not
\* fail, and the backward curve has exactly one point for each reading
\* within the trailing 12 hours of the last reading, with that reading's
\* timestamp; also when the series spans 12 hours or less.
C22_BackwardProjectionTotal ==
    (call.fn = "plot_data_static" /\ series # << >>) =>
        /\ result.exc = "None"
        /\ [k \in 1..Len(Plot.min_crit_prev_readings) |->
                Plot.min_crit_prev_readings[k].dt_reading]
               = Trailing12Hours(series)

\* The earliest reading of rs with a timestamp of t or later.
FirstSince(rs, t) ==
    LET later == {k \in 1..Len(rs) : rs[k].dt_reading >= t}
    IN  rs[CHOOSE k \in later : \A k2 \in later : k <= k2]

\* The forward curve when the window of every point holds readings of the
\* series only.
SeriesOnlyForward(rs) ==
    [j \in 1..18 |->
        LET dt == rs[Len(rs)].dt_reading + j * 15 * 60
            w == SelectSeq(rs, LAMBDA r : r.dt_reading >= dt - 5 * 3600)
        IN  IRReading(dt, IF MinHeight(w) + 250 - w[1].height < 5 * 50
                          THEN 5 * 50 + w[1].height
                          ELSE MinHeight(w) + 250)]

\* C27: every height of the forward and of the backward curve is the height
\* of the earliest reading of the series at or after 5 hours before the
\* point's timestamp, plus 2.5 ft, whatever the lowest reading of the window
\* is; and the forward curve is the one computed from windows without the
\* points projected before.
C27_FirstReadingDeterminesHeight ==
    Projected =>
        /\ \A j \in 1..Len(Plot.min_cf_readings) :
               LET p == Plot.min_cf_readings[j]
               IN  p.height
                       = FirstSince(series, p.dt_reading - 5 * 3600).height
                             + 250
        /\ \A k \in 1..Len(Plot.min_crit_prev_readings) :
               LET p == Plot.min_crit_prev_readings[k]
               IN  p.height
                       = FirstSince(series, p.dt_reading - 5 * 3600).height
                             + 250
        /\ Plot.min_cf_readings = SeriesOnlyForward(series)

\* C27's case: on both curves a point whose window starts above its lowest
\* reading, so that the lowest reading plus 2.5 ft is not the height.
C27_Witness ==
    /\ Projected
    /\ \E j \in 1..Len(Plot.min_cf_readings) :
           /\ ForwardWindow(j)[1].height > MinHeight(ForwardWindow(j))
           /\ Plot.min_cf_readings[j].height
                  > MinHeight(ForwardWindow(j)) + 250
    /\ \E k \in 1..Len(Plot.min_crit_prev_readings) :
           /\ BackwardWindow(k)[1].height > MinHeight(BackwardWindow(k))
           /\ Plot.min_crit_prev_readings[k].height
                  > MinHeight(BackwardWindow(k)) + 250

\* The 0-based index of the reading a ramp series starts to rise from: the
\* last reading at the height of the first.
RampStart(rs) ==
    LET flat == {k \in 1..Len(rs) : rs[k].height = rs[1].height}
    IN  (CHOOSE k \in flat : \A k2 \in flat : k2 <= k) - 1

\* The first 0-based index at which the rise since one of the 20 readings
\* before it is at least 2.5 ft.
FirstRiseIndex(rs) ==
    LET risen == {i \in 1..Len(rs) :
                     \E j \in Max(1, i - 20)..(i - 1) :
                         rs[i].height - rs[j].height >= 250}
    IN  (CHOOSE i \in risen : \A i2 \in risen : i <= i2) - 1

\* C13 (as claimed): on a 15-minute series that rises linearly at just over
\* 0.5 ft/hr get_first_critical_points first returns the first reading
\* whose rise since one of the 20 readings before it is at least 2.5 ft,
\* the reading 5 hours after the start of the ramp.
C13_RampFirstCriticalPoint ==
    (call.fn = "get_first_critical_points" /\ series \in RampSeries) =>
        /\ result.exc = "None"
        /\ result.val # << >>
        /\ result.val[1] = series[FirstRiseIndex(series) + 1]
        /\ FirstRiseIndex(series) = RampStart(series) + 20

\* C14 (as claimed): get_critical_points, which skips the readings below
\* RIVER_MIN_HEIGHT + RISE_CRITICAL, returns exactly the readings for which
\* the rise/rate test passes, so every first critical point of the series
\* is one of its critical points.
C14_BaselineSkipIsOptimization ==
    (call.fn = "get_critical_points" /\ result.exc = "None") =>
        /\ result.val = qualifying_readings(series,
                             max_lookback(series, a_utils), a_utils)
        /\ SeqToSet(get_first_critical_points(series, a_utils))
               \subseteq SeqToSet(result.val)

\* C24 (as claimed): after a reading that get_critical_points reports no
\* reading within the next 6 hours is reported: any two points of the list
\* it returns are more than 6 hours apart.
C24_CriticalPointsSixHoursApart ==
    (call.fn = "get_critical_points" /\ result.exc = "None") =>
        \A i, j \in 1..Len(result.val) :
            i < j => result.val[j].dt_reading - result.val[i].dt_reading
                         > 6 * 3600

\* C25 (as claimed): for an anchor at least 24 hours after the first and at
\* least 24 hours before the last reading of the series, the window
\* get_48hr_readings returns starts with the reading 24 hours before the
\* anchor and ends with the reading 24 hours after it.
C25_WindowSpans24HoursEachSide ==
    (/\ call.fn = "get_48hr_readings"
     /\ call.anchor \in SeqToSet(series)
     /\ call.anchor.dt_reading - series[1].dt_reading >= 24 * 3600
     /\ series[Len(series)].dt_reading - call.anchor.dt_reading
            >= 24 * 3600) =>
        /\ result.exc = "None"
        /\ result.val # << >>
        /\ result.val[1].dt_reading = call.anchor.dt_reading - 24 * 3600
        /\ result.val[Len(result.val)].dt_reading
               = call.anchor.dt_reading + 24 * 3600

\* C19 (as claimed): get_critical_points and get_first_critical_points do
\* not return for a series with no more readings than the lookback, they
\* fail.
C19_ShortSeriesFails ==
    (/\ call.fn \in {"get_first_critical_points", "get_critical_points"}
     /\ \/ get_reading_rate_exc(series) # "None"
        \/ Len(series) <= max_lookback(series, a_utils)) =>
        result.exc # "None"

\* C20: get_48hr_readings raises, and returns no window, whenever the
\* anchor is not a reading of the series; it returns a window only for an
\* anchor that is one.
C20_AnchorNotFoundFails ==
    call.fn = "get_48hr_readings" =>
        /\ call.anchor \notin SeqToSet(series) =>
               result.exc # "None" /\ result.val = << >>
        /\ result.exc = "None" => call.anchor \in SeqToSet(series)

\* C20's case: an anchor that is not in a series get_reading_rate accepts,
\* and an anchor that is.
C20_Witness ==
    /\ call.fn = "get_48hr_readings"
    /\ call.anchor \notin SeqToSet(series)
    /\ Len(series) >= 2
    /\ result.exc = "ValueError"

\* The readings of the reading sets get_earliest_latest_readings was called
\* on.
ReadingsOfCall == SeqToSet(readings_in_loop_order(call.anchor))

\* C30: for a non-empty list of non-empty reading sets in any order,
\* get_earliest_latest_readings returns and leaves in stats a reading of the
\* sets with the minimum timestamp as earliest_reading and one with the
\* maximum timestamp as latest_reading.
C30_EarliestLatestOfAllSets ==
    call.fn = "get_earliest_latest_readings" =>
        /\ (/\ call.anchor # << >>
            /\ \A k \in DOMAIN call.anchor : call.anchor[k] # << >>)
               => result.exc = "None"
        /\ result.exc = "None" =>
               /\ stats.earliest_reading \in ReadingsOfCall
               /\ stats.latest_reading \in ReadingsOfCall
               /\ \A reading \in ReadingsOfCall :
                      /\ stats.earliest_reading.dt_reading
                             <= reading.dt_reading
                      /\ reading.dt_reading
                             <= stats.latest_reading.dt_reading

\* The call returned on three reading sets listed latest first, none of
\* whose end readings is the earliest or the latest.
C30_Witness ==
    /\ call.fn = "get_earliest_latest_readings"
    /\ result.exc = "None"
    /\ Len(call.anchor) = 3
    /\ \A k \in DOMAIN call.anchor : call.anchor[k] # << >>
    /\ call.anchor[1][1].dt_reading
           > call.anchor[3][Len(call.anchor[3])].dt_reading
    /\ stats.earliest_reading # call.anchor[1][1]
    /\ stats.latest_reading # call.anchor[3][Len(call.anchor[3])]

----------------------------------------------------------------------------
(* Claims about get_reading_sets and summarize_results (Spec).  The claims  *)
(* about one call are stated of the first call, whose stats start empty.    *)

\* The first get_reading_sets call has returned.
FirstCallReturned == run = 1 /\ file_index = 1 /\ pc # "raised"

FirstFile == data_files[1]

\* The first critical points the critical windows are anchored on.
Anchors == get_first_critical_points(FirstFile, a_utils)

\* The positions in the catalog of the slides inside window w.
SlidesInWindow(w) ==
    {k \in 1..Len(known_slides) :
        /\ w[1].dt_reading <= known_slides[k].dt_slide
        /\ known_slides[k].dt_slide <= w[Len(w)].dt_reading}

\* The window anchored on a has a known slide in it.
HasSlide(a) == SlidesInWindow(get_48hr_readings(a, FirstFile)) # {}

NoDuplicates(l) == \A i, j \in 1..Len(l) : l[i] = l[j] => i = j

\* C5 (as claimed): once a known event has been associated with a critical
\* window no later window is associated with it: each known event appears at
\* most once in stats['relevant_slides'] and slides_in_range.remove never
\* fails.
C5_EventAssociatedOnce ==
    (run = 1 /\ file_index = 1) =>
        /\ NoDuplicates(stats.relevant_slides)
        /\ exc # "ValueError"

\* C6 (as claimed): for every critical window associated with a known event
\* the lead time in stats['notification_times'] is the event's timestamp
\* minus the timestamp of the first critical point the window is anchored
\* on, in minutes.
C6_LeadTimeFromAnchor ==
    FirstCallReturned =>
        \A k \in 1..Len(Anchors) :
            LET slide == get_relevant_slide(
                             get_48hr_readings(Anchors[k], FirstFile),
                             known_slides)
            IN  slide # None =>
                    stats.notification_times[slide]
                        = IntDiv(slide.dt_slide - Anchors[k].dt_reading, 60)

\* The anchors of the windows that have a known slide in them, in order.
AssociatedAnchors == SelectSeq(Anchors, HasSlide)

\* The slide with the earliest timestamp among those in a's window.
EarliestSlide(a) ==
    LET in_window == SlidesInWindow(get_48hr_readings(a, FirstFile))
    IN  known_slides[CHOOSE k \in in_window : \A j \in in_window :
                         known_slides[k].dt_slide <= known_slides[j].dt_slide]

\* The slide listed first in the catalog among those in a's window.
FirstListedSlide(a) ==
    LET in_window == SlidesInWindow(get_48hr_readings(a, FirstFile))
    IN  known_slides[CHOOSE k \in in_window : \A j \in in_window : k <= j]

\* C7 (as claimed): the event associated with a window is the
\* chronologically earliest known event inside the window, whatever the
\* order of the catalog, and none exactly when no known event is inside.
C7_EarliestEventAssociated ==
    FirstCallReturned =>
        /\ Len(stats.relevant_slides) = Len(AssociatedAnchors)
        /\ \A k \in 1..Len(AssociatedAnchors) :
               stats.relevant_slides[k] = EarliestSlide(AssociatedAnchors[k])

\* C7 (amended): the event associated with a window is the known event
\* inside the window that the catalog lists first, and a window is associated
\* with no event exactly when no known event is inside it.
C7_FirstListedEventAssociated ==
    FirstCallReturned =>
        /\ Len(stats.relevant_slides) = Len(AssociatedAnchors)
        /\ stats.unassociated_notifications
               = Len(Anchors) - Len(AssociatedAnchors)
        /\ \A k \in 1..Len(AssociatedAnchors) :
               stats.relevant_slides[k]
                   = FirstListedSlide(AssociatedAnchors[k])

\* C7's case: a window was associated that holds two known events, listed
\* in the catalog against their chronological order.
C7_Witness ==
    /\ FirstCallReturned
    /\ \E k \in 1..Len(AssociatedAnchors) :
           /\ EarliestSlide(AssociatedAnchors[k])
                  # FirstListedSlide(AssociatedAnchors[k])
           /\ stats.relevant_slides[k]
                  = FirstListedSlide(AssociatedAnchors[k])

\* C8 (as claimed): for every critical window with no known event in range
\* the point appended to stats['unassociated_notification_points'] is the
\* first critical point the window is anchored on.
C8_FalsePositiveIsAnchor ==
    FirstCallReturned =>
        stats.unassociated_notification_points
            = SelectSeq(Anchors, LAMBDA a : ~HasSlide(a))

\* The timestamps of all readings of the processed data files.
ProcessedTimes ==
    {data_files[f][k].dt_reading :
        f \in 1..file_index, k \in 1..Len(data_files[1])}

InAnalyzedRange(slide) ==
    /\ \E t \in ProcessedTimes : t <= slide.dt_slide
    /\ \E t \in ProcessedTimes : slide.dt_slide <= t

\* C9: after summarize_results every known event is in exactly one of
\* stats['relevant_slides'], stats['unassociated_slides'] and the slides
\* outside range; the false negatives are exactly the known events inside
\* [earliest reading, latest reading] of the processed series that no window
\* claimed; the removal from the false-negative set never fails.
C9_EventsPartitioned ==
    /\ exc # "KeyError"
    /\ pc = "done" =>
           LET all == SeqToSet(known_slides)
               associated ==
                   {s \in all : s \in SeqToSet(stats.relevant_slides)}
               outside == SeqToSet(slides_outside_range)
               unassociated == stats.unassociated_slides.items
           IN  /\ associated \cup unassociated \cup outside = all
               /\ associated \cap unassociated = {}
               /\ associated \cap outside = {}
               /\ unassociated \cap outside = {}
               /\ unassociated
                      = {s \in all : InAnalyzedRange(s)
                                       /\ s \notin associated}
               /\ outside = {s \in all : ~InAnalyzedRange(s)}

\* C9's case: summarize_results has found a false negative and a slide
\* outside the range.
C9_Witness ==
    /\ pc = "done"
    /\ stats.unassociated_slides.items # {}
    /\ slides_outside_range # << >>

\* C10: after get_reading_sets calls that complete, notifications_issued =
\* associated_notifications + unassociated_notifications,
\* associated_notifications = len(relevant_slides), and the assertion of
\* summarize_results, unassociated_notifications ==
\* len(unassociated_notification_points), holds.
C10_CountsAgree ==
    /\ exc # "AssertionError"
    /\ (file_index >= 1 /\ pc # "raised") =>
           /\ stats.notifications_issued
                  = stats.associated_notifications
                        + stats.unassociated_notifications
           /\ stats.associated_notifications = Len(stats.relevant_slides)
           /\ stats.unassociated_notifications
                  = Len(stats.unassociated_notification_points)

\* C10's case: both data files processed, with an associated and an
\* unassociated notification, and the summary made.
C10_Witness ==
    /\ pc = "done"
    /\ stats.associated_notifications >= 1
    /\ stats.unassociated_notifications >= 1

\* C23: get_reading_sets (with the get_first_critical_points,
\* get_critical_points and get_48hr_readings calls it makes) and
\* summarize_results leave the readings of every data file and the catalog
\* of known slides as they were: the same readings and the same slides in
\* the same order.  (A second process_hx_data call loads the catalog anew;
\* that step is none of these functions'.)
C23_SeriesAndCatalogUnchanged ==
    [][run' = run =>
           known_slides' = known_slides /\ data_files' = data_files]_vars

\* C23's case: get_reading_sets has removed an associated slide from
\* slides_in_range, and summarize_results has removed a slide outside the
\* range from the set of unassociated slides.
C23_Witness ==
    /\ pc = "done"
    /\ stats.associated_notifications >= 1
    /\ slides_outside_range # << >>
    /\ Len(known_slides) = MaxSlides

\* The data files get_reading_sets has been called on.
ProcessedFiles ==
    IF run = 2 THEN 1..Len(data_files) ELSE 1..file_index

\* C26: after get_reading_sets calls on non-empty series, in any order of
\* the series, stats['earliest_reading'] is the first reading of a processed
\* series and no reading of a processed series is earlier;
\* stats['latest_reading'] is the last reading of a processed series and no
\* reading of one is later; so the earliest is not after the latest.
C26_EarliestLatestTracked ==
    ProcessedFiles # {} =>
        /\ stats.earliest_reading
               \in {data_files[f][1] : f \in ProcessedFiles}
        /\ stats.latest_reading
               \in {data_files[f][Len(data_files[f])] : f \in ProcessedFiles}
        /\ \A f \in ProcessedFiles : \A k \in 1..Len(data_files[f]) :
               /\ stats.earliest_reading.dt_reading
                      <= data_files[f][k].dt_reading
               /\ data_files[f][k].dt_reading
                      <= stats.latest_reading.dt_reading
        /\ stats.earliest_reading.dt_reading
               <= stats.latest_reading.dt_reading

\* C26's case: the second series starts before the first and ends inside
\* it, so the earliest reading comes from the second series and the latest
\* from the first.
C26_Witness ==
    /\ run = 1
    /\ file_index = 2
    /\ data_files[2][1].dt_reading < data_files[1][1].dt_reading
    /\ stats.earliest_reading = data_files[2][1]
    /\ stats.latest_reading = data_files[1][Len(data_files[1])]
    /\ stats.latest_reading.dt_reading
           > data_files[2][Len(data_files[2])].dt_reading

\* C28 (as claimed): when all series are processed, the slides that
\* get_reading_sets has appended to stats['unassociated_slides'] are, as a
\* set, the slides summarize_results is about to compute: the known slides
\* that are not associated and not outside [earliest reading, latest
\* reading]; also for series with a gap between them or overlapping.
C28_FalseNegativeComputationsAgree ==
    (run = 1 /\ pc = "summarize") =>
        /\ SeqToSet(stats.unassociated_slides.items)
               = {s \in SeqToSet(known_slides) :
                     /\ s \notin SeqToSet(stats.relevant_slides)
                     /\ stats.earliest_reading.dt_reading <= s.dt_slide
                     /\ s.dt_slide <= stats.latest_reading.dt_reading}
        /\ SeqToSet(stats.unassociated_slides.items)
               = summarize_results(known_slides, stats)
                     .stats.unassociated_slides.items

\* stats is as utils/stats.py creates it.
StatsZeroed ==
    /\ stats.notifications_issued = 0
    /\ stats.associated_notifications = 0
    /\ stats.unassociated_notifications = 0
    /\ stats.unassociated_notification_points = << >>
    /\ stats.relevant_slides = << >>
    /\ stats.unassociated_slides.type = "list"
    /\ stats.unassociated_slides.items = << >>
    /\ DOMAIN stats.notification_times = {}
    /\ stats.earliest_reading = None
    /\ stats.latest_reading = None

\* C15 (as claimed): a second run of the batch analysis in the same process
\* on the same series and catalog starts from zeroed statistics, completes,
\* and prints the same notification, true-positive, false-positive and
\* false-negative counts as the first.
C15_SecondRunSameStatistics ==
    run = 2 =>
        /\ exc = "None"
        /\ (pc = "files" /\ file_index = 0) => StatsZeroed
        /\ pc = "done" => summaries[2] = summaries[1]

\* get_reading_sets on the second data file and then on the first, from
\* empty stats.
ReverseOrder ==
    get_reading_sets(data_files[1], known_slides,
        get_reading_sets(data_files[2], known_slides, InitialStats,
                         a_utils).stats,
        a_utils)

\* The number of times x occurs in the list l.
Count(l, x) == Cardinality({k \in 1..Len(l) : l[k] = x})

\* The lists l1 and l2 hold the same elements the same number of times.
SameElements(l1, l2) ==
    \A x \in SeqToSet(l1) \cup SeqToSet(l2) : Count(l1, x) = Count(l2, x)

\* C17 (as claimed): get_reading_sets on data file A and then B leaves the
\* same notification counts, associated and unassociated events,
\* unassociated notification points and lead times as on B and then A.
C17_OrderIndependent ==
    (run = 1 /\ file_index = 2 /\ pc \in {"output", "summarize"}) =>
        LET other == ReverseOrder.stats
        IN  /\ ReverseOrder.exc = "None"
            /\ stats.notifications_issued = other.notifications_issued
            /\ stats.associated_notifications
                   = other.associated_notifications
            /\ stats.unassociated_notifications
                   = other.unassociated_notifications
            /\ SameElements(stats.relevant_slides, other.relevant_slides)
            /\ SameElements(stats.unassociated_slides.items,
                            other.unassociated_slides.items)
            /\ SameElements(stats.unassociated_notification_points,
                            other.unassociated_notification_points)
            /\ stats.notification_times = other.notification_times

\* C18 (as claimed): get_reading_sets completes without raising on every
\* series of constant interval and every catalog, also when
\* get_critical_points finds no critical point in a 48-hour window.
C18_GetReadingSetsTotal ==
    run = 1 => exc = "None"

\* The pickle files written so far.
PickleFiles == {name \in DOMAIN output_files : name.kind = "reading_dump.pkl"}

\* C29 (as claimed): distinct reading sets are written to distinct output
\* files: once the reading sets of a data file are pickled and plotted, each
\* of them is what the pickle file and the plot files of its name hold, and
\* after the first data file there are as many pickle files as distinct
\* reading sets were returned.
C29_DistinctOutputFiles ==
    (run = 1 /\ file_index >= 1 /\ pc \in {"files", "summarize", "done"}) =>
        /\ \A k \in DOMAIN reading_sets :
               /\ output_files[output_filename("reading_dump.pkl",
                                                reading_sets[k])]
                      = reading_sets[k]
               /\ \A kind \in {"ir_plot.html", "ir_plot.png"} :
                      output_files[output_filename(kind, reading_sets[k])]
                          .readings = reading_sets[k]
        /\ file_index = 1 =>
               Cardinality(PickleFiles) = Cardinality(SeqToSet(reading_sets))

----------------------------------------------------------------------------
(* Claims about the parameter sweep (SpecSweep).                           *)

\* C16 (as claimed): after analyze_all_data returns, the thresholds other
\* callers of the detection functions see are the ones they saw before:
\* process_hx_data runs with RISE_CRITICAL = 2.5 and M_CRITICAL = 0.5.
C16_ThresholdsUnchanged ==
    all_results # << >> => a_utils = DefaultThresholds

=============================================================================
